---- MODULE Spec2Model ----
(***************************************************************************)
(* Model of the streaming engine of src/src/base/BaseStream.ts: the two    *)
(* queues, the playback chain (start -> streamVideo -> handleStreamProcess *)
(* -> streamNext / handleStreamError), stop() and restart().               *)
(*                                                                         *)
(* The engine is single-threaded and cooperative: every async method runs  *)
(* atomically from one await to the next.  A "task" is one invocation of   *)
(* start(), stop() or restart() together with everything it awaits; pc[t]  *)
(* is the await the task is suspended at.                                  *)
(***************************************************************************)
EXTENDS Integers, Sequences, FiniteSets, TLC

\* ---------------------------------------------------------------- bounds
MaxTasks == 2       \* concurrent invocations of start()/stop()/restart()
MaxStreamed == 4    \* cap on totalStreamed plus the length of the active list
MaxArgs == 2        \* most locators passed to one addToQueue call
MaxPlayed == 4      \* getNextVideo calls followed after one queue call
MaxRegistry == 2    \* the Server admits this many streams (config.maxStreams)
MaxOutput == 2      \* most output one process writes on one channel

\* ------------------------------------------------------ program constants
MAX_RETRY_ATTEMPTS == 3
BASE_DELAY == 2     \* seconds: setTimeout(resolve, 2000 * retryCount)
placeholderPath == "placeholder"
maxConnectionTests == 3      \* YouTubeStream

Files == {"A", "B"}         \* local-file locators
Playlist == <<"A", "B">>    \* the sources queued on the engine under test
Urls == {"U"}               \* locators that parse as http/https/rtmp URLs
Locators == Files \cup Urls
NoFile == "none"            \* currentFile = null
NoProcess == 0              \* currentStreamProcess = null
NoCode == -1                \* subprocess has not exited
NoCall == [op |-> "none", args |-> <<>>, queue |-> <<>>, ret |-> "none",
           temp |-> <<>>]
ExitCodes == {0, 1, 255}
Tasks == 1..MaxTasks

\* Strings that validateConfig matches against a pattern are sequences of
\* one-character strings; a framerate is a number of tenths of a frame per
\* second, so that 5 is the framerate 0.5 and 300 the framerate 30.
Digits == {"0", "1", "2", "3", "4", "5", "6", "7", "8", "9"}
DEFAULT_CONFIG ==
    [resolution |-> <<"1", "0", "8", "0", "x", "1", "9", "2", "0">>,
     framerate |-> 300,
     videoBitrate |-> <<"2", "5", "0", "0", "k">>,
     audioBitrate |-> <<"1", "2", "8", "k">>]
Resolutions == {DEFAULT_CONFIG.resolution, <<"1", "0", "8", "0">>}
Framerates == {0, 5, 10, 300, 1200, 1210}
VideoBitrates == {DEFAULT_CONFIG.videoBitrate, <<"2", "5", "0", "0">>, <<"k">>}
AudioBitrates == {DEFAULT_CONFIG.audioBitrate, <<"1", "2", "8">>}
NoUpdate == [called |-> FALSE, before |-> DEFAULT_CONFIG, raised |-> FALSE]

\* the two output channels of a process, and a process that has written
\* nothing
Channels == {"stdout", "stderr"}
NoOutput == [c \in Channels |-> 0]
\* lastSwitch before any switchTo...Server() has returned
NoSwitch == [target |-> "none", ret |-> "none"]
\* Server: the limit of the registry (config.maxStreams), the ids the
\* streams are registered under, the stream objects, and no stream
maxStreams == MaxRegistry
StreamIds == 1..(maxStreams + 1)
StreamObjects == {1, 2}
\* lastAdd before any addStream has returned
NoAdd == [id |-> 0, ret |-> "none"]

VARIABLES
    videoQueue,             \* persistent queue (locators of valid sources)
    videoQueueTemp,         \* active playback list
    currentStreamProcess,   \* NoProcess, or the task whose latest process it is
    isActive,
    isLoop,
    currentFile,
    totalStreamed,
    retryCount,
    placeholderExists,      \* environment: tmp/placeholder.mp4 exists
    existing,               \* environment: local files that exist and URLs
                            \*   that can be fetched
    pc,                     \* per task: the await it is suspended at
    procState,              \* per task: state of the process it spawned last
    exitCode,               \* per task: the exit code its continuation was resumed
                            \*           with (NoCode once the task has moved on)
    backoffs,               \* history: backoff delays since the last success/start/stop
    lastCall,               \* history (SpecQueue): the last call other than a plain
                            \*   getNextVideo: its name, its arguments, the
                            \*   persistent queue it found, what it returned, the
                            \*   active list it left
    played,                 \* history (SpecQueue): what getNextVideo has returned
                            \*   since that call
    connectionTestCount,    \* YouTubeStream: connection tests made so far
    isUsingBackup,          \* YouTubeStream: the backup server is selected
    enableBackup,           \* YouTubeStream: config.enableBackup ?? true
    config,                 \* the validated fields of this.config
    lastUpdate,             \* history: the configuration the last updateConfig
                            \*   found, and whether that call raised
    raised,                 \* history: the last start() to come back from
                            \*   validatePlaceholder raised to its caller
    procConfig,             \* per task: the configuration its last process was
                            \*   spawned with (buildFFmpegCommand)
    lastStatus,             \* history: what the last getStatus() returned
    pipe,                   \* per task and channel: the output its process has
                            \*   written that no read loop has taken yet
    written,                \* per task and channel: the output its process has
                            \*   written so far
    lastLog,                \* history: the level processFFmpegOutput logged
                            \*   the last line at
    switching,              \* per task: the switchTo...Server() it runs
    lastSwitch,             \* history: the last switchTo...Server() to return
    activeStreams,          \* Server: the registry, entries <<id, stream>>
    stopCalls,              \* Server.stop(): the streams it called stop() on
    serverPc,               \* Server.stop(): where it is suspended
    lastAdd                 \* history: what the last addStream returned

engineVars == <<currentStreamProcess, isActive, currentFile, retryCount,
                placeholderExists, pc, procState, exitCode, backoffs>>
queueVars == <<videoQueue, videoQueueTemp, isLoop, totalStreamed, existing>>
histVars == <<lastCall, played>>
tubeVars == <<connectionTestCount, isUsingBackup, enableBackup>>
confVars == <<config, lastUpdate>>
\* what the playback engine and the queue calls never touch
outVars == <<pipe, written, lastLog>>
switchVars == <<switching, lastSwitch>>
serverVars == <<activeStreams, stopCalls, serverPc, lastAdd>>
extVars == <<tubeVars, confVars, raised, procConfig, lastStatus, outVars,
             switchVars, serverVars>>
vars == <<engineVars, queueVars, histVars, extVars>>

\* ------------------------------------------------------------ helpers
Range(s) == {s[i] : i \in 1..Len(s)}
SeqsUpTo(S, n) == UNION {[1..k -> S] : k \in 0..n}
RemoveAt(s, i) == [j \in 1..(Len(s) - 1) |-> IF j < i THEN s[j] ELSE s[j + 1]]
RECURSIVE SelectSeq2(_, _)
\* Array.prototype.filter with a predicate given as a set of accepted values
SelectSeq2(s, ok) ==
    IF s = <<>> THEN <<>>
    ELSE IF Head(s) \in ok THEN <<Head(s)>> \o SelectSeq2(Tail(s), ok)
    ELSE SelectSeq2(Tail(s), ok)

\* ------------------------------------------------------ source classifier
\* isUrl: new URL(path) parses and its protocol is http, https, rtmp or rtmps
IsUrl(path) == path \in Urls

\* mutant: every source taken for valid
AnalyzeVideoSourceAllValid(source, files) ==
    [path |-> source,
     type |-> IF IsUrl(source) THEN "url" ELSE "file",
     isValid |-> TRUE]

\* mutant: URLs probed like files
AnalyzeVideoSourceProbesUrls(source, files) ==
    [path |-> source,
     type |-> IF IsUrl(source) THEN "url" ELSE "file",
     isValid |-> source \in files]

\* analyzeVideoSource: URLs are assumed valid, files are valid iff they exist
AnalyzeVideoSource(source, files) ==
    [path |-> source,
     type |-> IF IsUrl(source) THEN "url" ELSE "file",
     isValid |-> IF IsUrl(source) THEN TRUE ELSE source \in files]

\* ------------------------------------------------------------------ queue
\* addToQueue: drop paths already queued, classify, drop invalid, push the rest
NewSources(queue, videoPaths, files) ==
    LET fresh == SelectSeq2(videoPaths, Locators \ Range(queue))
        valid == {p \in Range(fresh) : AnalyzeVideoSource(p, files).isValid}
    IN SelectSeq2(fresh, valid)

AddToQueue(queue, videoPaths, files) == queue \o NewSources(queue, videoPaths, files)

\* mutant: indices counted from 1
RemoveFromQueueOneBased(queue, index) ==
    IF index < 1 \/ index > Len(queue)
    THEN [queue |-> queue, removed |-> FALSE]
    ELSE [queue |-> RemoveAt(queue, index), removed |-> TRUE]

\* removeFromQueue: bounds check (indices are 0-based), then splice(index, 1)
RemoveFromQueue(queue, index) ==
    IF index < 0 \/ index >= Len(queue)
    THEN [queue |-> queue, removed |-> FALSE]
    ELSE [queue |-> RemoveAt(queue, index + 1), removed |-> TRUE]

\* mutant: only the persistent queue is emptied
ClearQueuePersistentOnly(queue, temp) == [queue |-> <<>>, temp |-> temp]

\* clearQueue: videoQueue.length = 0; videoQueueTemp.length = 0
ClearQueue(queue, temp) == [queue |-> <<>>, temp |-> <<>>]

\* mutant: the loop flag ignored, the active list is never refilled
GetNextVideoNoRefill(temp, queue, loop, total) ==
    IF Len(temp) > 0
    THEN [path |-> Head(temp), temp |-> Tail(temp), total |-> total + 1]
    ELSE [path |-> placeholderPath, temp |-> temp, total |-> total]

\* mutant: the active list refilled whether or not looping is enabled
GetNextVideoAlwaysLoops(temp, queue, loop, total) ==
    IF Len(temp) > 0
    THEN [path |-> Head(temp), temp |-> Tail(temp), total |-> total + 1]
    ELSE IF Len(queue) > 0
    THEN [path |-> Head(queue), temp |-> Tail(queue), total |-> 1]
    ELSE [path |-> placeholderPath, temp |-> temp, total |-> total]

\* mutant: the refill skips the head of the persistent queue
GetNextVideoRefillSkipsHead(temp, queue, loop, total) ==
    IF Len(temp) > 0
    THEN [path |-> Head(temp), temp |-> Tail(temp), total |-> total + 1]
    ELSE IF loop /\ Len(queue) > 1
    THEN [path |-> queue[2], temp |-> Tail(Tail(queue)), total |-> 1]
    ELSE IF loop /\ Len(queue) > 0
    THEN [path |-> Head(queue), temp |-> Tail(queue), total |-> 1]
    ELSE [path |-> placeholderPath, temp |-> temp, total |-> total]

\* mutant: a pop that passes over the head when another source follows it
GetNextVideoDropsOne(temp, queue, loop, total) ==
    IF Len(temp) > 1
    THEN [path |-> temp[2], temp |-> Tail(Tail(temp)), total |-> total + 1]
    ELSE IF Len(temp) > 0
    THEN [path |-> Head(temp), temp |-> Tail(temp), total |-> total + 1]
    ELSE IF loop /\ Len(queue) > 0
    THEN [path |-> Head(queue), temp |-> Tail(queue), total |-> 1]
    ELSE [path |-> placeholderPath, temp |-> temp, total |-> total]

\* mutant: a refill that keeps counting where the last cycle stopped
GetNextVideoKeepsCount(temp, queue, loop, total) ==
    IF Len(temp) > 0
    THEN [path |-> Head(temp), temp |-> Tail(temp), total |-> total + 1]
    ELSE IF loop /\ Len(queue) > 0
    THEN [path |-> Head(queue), temp |-> Tail(queue), total |-> total + 1]
    ELSE [path |-> placeholderPath, temp |-> temp, total |-> total]

RECURSIVE Recursions(_, _, _)
\* getNextVideo: how many times a call on these lists calls itself
Recursions(temp, queue, loop) ==
    IF Len(temp) > 0 THEN 0
    ELSE IF loop /\ Len(queue) > 0 THEN 1 + Recursions(temp \o queue, queue, loop)
    ELSE 0

RECURSIVE GetNextVideo(_, _, _, _)
\* getNextVideo: pop the active list; else refill from the persistent queue
\* and recurse; else the placeholder
GetNextVideo(temp, queue, loop, total) ==
    IF Len(temp) > 0
    THEN [path |-> Head(temp), temp |-> Tail(temp), total |-> total + 1]
    ELSE IF loop /\ Len(queue) > 0
    THEN GetNextVideo(temp \o queue, queue, loop, 0)
    ELSE [path |-> placeholderPath, temp |-> temp, total |-> total]

\* mutant: the warning threshold off by one
DetermineHealthFromOne(active, retries) ==
    IF ~active THEN "error"
    ELSE IF retries >= 1 THEN "warning"
    ELSE "healthy"

\* determineHealth
DetermineHealth(active, retries) ==
    IF ~active THEN "error"
    ELSE IF retries > 1 THEN "warning"
    ELSE "healthy"

\* mutant: the queue depth taken from the active list
GetStatusActiveDepth ==
    [isStreaming |-> isActive,
     currentFile |-> currentFile,
     queueCount |-> Len(videoQueueTemp),
     totalStreamed |-> totalStreamed,
     health |-> DetermineHealth(isActive, retryCount)]

\* getStatus (uptime left out: wall-clock time is not modelled)
GetStatus ==
    [isStreaming |-> isActive,
     currentFile |-> currentFile,
     queueCount |-> Len(videoQueue),
     totalStreamed |-> totalStreamed,
     health |-> DetermineHealth(isActive, retryCount)]

\* lastStatus before any call of getStatus
NoStatus ==
    [isStreaming |-> FALSE, currentFile |-> NoFile, queueCount |-> 0,
     totalStreamed |-> 0, health |-> "none"]

\* the public call getStatus()
GetStatusCall ==
    /\ lastStatus' = GetStatus
    /\ UNCHANGED <<engineVars, queueVars, histVars>>
    /\ UNCHANGED <<tubeVars, confVars, raised, procConfig>>
    /\ UNCHANGED <<outVars, switchVars, serverVars>>

\* --------------------------------------------------------- process exits
\* mutant: every death by a signal (128 + n) taken for a success
IsSuccessAnySignal(code) == code = 0 \/ code > 128

\* mutant: a terminated FFmpeg (255) taken for a failure
IsSuccessOnlyClean(code) == code = 0

\* handleStreamProcess line 420: 0 is a clean exit, 255 a terminated FFmpeg
IsSuccess(code) == code = 0 \/ code = 255

\* mutant: no retry ceiling
MayRetryAlways(retries) == TRUE

\* handleStreamError line 443
MayRetry(retries) == retries <= MAX_RETRY_ATTEMPTS

\* mutant: a doubling backoff (2, 4, 8)
BackoffDelayDoubling(retries) == BASE_DELAY * (2 ^ (retries - 1))

\* handleStreamError line 445: setTimeout(resolve, 2000 * this.retryCount)
BackoffDelay(retries) == BASE_DELAY * retries

\* subprocess.kill(): a running process is sent the termination signal
Kill(ps, h) ==
    IF h # NoProcess /\ ps[h] = "running" THEN [ps EXCEPT ![h] = "killed"] ELSE ps

Alive(t) == procState[t] \in {"running", "killed"}

\* the lowest free task slot takes the next public call
FreeTask(t) == pc[t] = "idle" /\ \A u \in Tasks : pc[u] = "idle" => t <= u

\* ------------------------------------------------- the playback chain
\* stop(), run by task t up to its first await.  active, ps, rc, file and bo
\* are the values of isActive, procState, retryCount, currentFile and backoffs
\* at the call; the task continues at graceLabel while stop() waits its
\* grace period and at endLabel once stop() has returned.
Stop(t, active, ps, rc, file, bo, graceLabel, endLabel) ==
    IF ~active
    THEN /\ isActive' = active
         /\ retryCount' = rc
         /\ currentFile' = file
         /\ backoffs' = bo
         /\ procState' = ps
         /\ pc' = [pc EXCEPT ![t] = endLabel]
         /\ UNCHANGED currentStreamProcess
    ELSE IF currentStreamProcess # NoProcess
    THEN /\ isActive' = FALSE
         /\ procState' = Kill(ps, currentStreamProcess)
         /\ pc' = [pc EXCEPT ![t] = graceLabel]
         /\ retryCount' = rc
         /\ currentFile' = file
         /\ backoffs' = bo
         /\ UNCHANGED currentStreamProcess
    ELSE /\ isActive' = FALSE
         /\ currentFile' = NoFile
         /\ retryCount' = 0
         /\ backoffs' = <<>>
         /\ procState' = ps
         /\ pc' = [pc EXCEPT ![t] = endLabel]
         /\ UNCHANGED currentStreamProcess

\* handleStreamError, run by task t up to its first await
HandleStreamError(t, active, ps, rc, file, bo) ==
    IF MayRetry(rc + 1)
    THEN /\ retryCount' = rc + 1
         /\ backoffs' = Append(bo, BackoffDelay(rc + 1))
         /\ pc' = [pc EXCEPT ![t] = "backoff"]
         /\ isActive' = active
         /\ procState' = ps
         /\ currentFile' = file
         /\ UNCHANGED currentStreamProcess
    ELSE Stop(t, active, ps, rc + 1, file, bo, "forcedStopGrace", "idle")

\* streamVideo(path), run by task t up to its first await: the spawn either
\* gives a process, whose exit the task then awaits, or throws
StreamVideo(t, path, spawnOk, active, rc, bo) ==
    /\ exitCode' = [exitCode EXCEPT ![t] = NoCode]
    /\ procConfig' = IF spawnOk THEN [procConfig EXCEPT ![t] = config] ELSE procConfig
    /\ pipe' = IF spawnOk THEN [pipe EXCEPT ![t] = NoOutput] ELSE pipe
    /\ written' = IF spawnOk THEN [written EXCEPT ![t] = NoOutput] ELSE written
    /\ IF spawnOk
       THEN /\ currentFile' = path
            /\ currentStreamProcess' = t
            /\ procState' = [procState EXCEPT ![t] = "running"]
            /\ pc' = [pc EXCEPT ![t] = "awaitExit"]
            /\ isActive' = active
            /\ retryCount' = rc
            /\ backoffs' = bo
       ELSE HandleStreamError(t, active, procState, rc, path, bo)

\* mutant: a streamNext that returns without scheduling the next source
StreamNextReturns(t, active) ==
    pc' = [pc EXCEPT ![t] = "idle"]

\* streamNext up to its await: the guard, then the one-second pre-play delay
StreamNext(t, active) ==
    pc' = [pc EXCEPT ![t] = IF ~active THEN "idle" ELSE "prePlay"]

\* start() up to `await this.validatePlaceholder()`
StartEnter(t, active) ==
    pc' = [pc EXCEPT ![t] = IF active THEN "idle" ELSE "startValidate"]

\* the public call start()
StartCall(t) ==
    /\ FreeTask(t)
    /\ StartEnter(t, isActive)
    /\ UNCHANGED <<currentStreamProcess, isActive, currentFile, retryCount,
                   placeholderExists, procState, exitCode, backoffs>>
    /\ UNCHANGED <<queueVars, histVars>>
    /\ UNCHANGED extVars

\* mutant: the catch block of start() leaves the flag as it finds it
StartFailedKeepsFlag(active) == active

\* the catch block of start(): the value it gives isActive before it rethrows
StartFailed(active) == FALSE

\* start() after validatePlaceholder: the throw, or the setup and first play
StartSetup(t, spawnOk) ==
    /\ pc[t] = "startValidate"
    /\ raised' = ~placeholderExists
    /\ IF ~placeholderExists
       THEN /\ isActive' = StartFailed(isActive)
            /\ pc' = [pc EXCEPT ![t] = "idle"]
            /\ UNCHANGED <<currentStreamProcess, currentFile, retryCount, procState,
                           exitCode, backoffs, videoQueueTemp, totalStreamed,
                           procConfig, pipe, written>>
       ELSE /\ totalStreamed + Len(videoQueueTemp) + Len(videoQueue) <= MaxStreamed
            /\ LET n == GetNextVideo(videoQueueTemp \o videoQueue, videoQueue,
                                     isLoop, totalStreamed)
               IN /\ videoQueueTemp' = n.temp
                  /\ totalStreamed' = n.total
                  /\ StreamVideo(t, n.path, spawnOk, TRUE, 0, <<>>)
    /\ UNCHANGED <<placeholderExists, videoQueue, isLoop, existing, histVars>>
    /\ UNCHANGED <<tubeVars, confVars, lastStatus, lastLog, switchVars, serverVars>>

\* handleStreamProcess after `await this.currentStreamProcess.exited`
ExitObserved(t, code) ==
    /\ pc[t] = "awaitExit"
    /\ Alive(t)
    /\ LET ps == [procState EXCEPT ![t] = "exited"]
       IN IF isActive
          THEN IF IsSuccess(code)
               THEN /\ retryCount' = 0
                    /\ backoffs' = <<>>
                    /\ StreamNext(t, isActive)
                    /\ procState' = ps
                    /\ UNCHANGED <<isActive, currentFile, currentStreamProcess>>
               ELSE HandleStreamError(t, isActive, ps, retryCount, currentFile, backoffs)
          ELSE /\ pc' = [pc EXCEPT ![t] = "idle"]
               /\ procState' = ps
               /\ UNCHANGED <<isActive, currentFile, currentStreamProcess,
                              retryCount, backoffs>>
    /\ exitCode' = [exitCode EXCEPT ![t] = IF pc'[t] = "idle" THEN NoCode ELSE code]
    /\ UNCHANGED <<placeholderExists, queueVars, histVars>>
    /\ UNCHANGED extVars

\* handleStreamError after its backoff delay: streamNext
BackoffFire(t) ==
    /\ pc[t] = "backoff"
    /\ StreamNext(t, isActive)
    /\ exitCode' = [exitCode EXCEPT ![t] = NoCode]
    /\ UNCHANGED <<currentStreamProcess, isActive, currentFile, retryCount,
                   placeholderExists, procState, backoffs>>
    /\ UNCHANGED <<queueVars, histVars>>
    /\ UNCHANGED extVars

\* streamNext after its pre-play delay: getNextVideo, then streamVideo
PrePlayFire(t, spawnOk) ==
    /\ pc[t] = "prePlay"
    /\ LET n == GetNextVideo(videoQueueTemp, videoQueue, isLoop, totalStreamed)
       IN /\ videoQueueTemp' = n.temp
          /\ totalStreamed' = n.total
          /\ StreamVideo(t, n.path, spawnOk, isActive, retryCount, backoffs)
    /\ UNCHANGED <<placeholderExists, videoQueue, isLoop, existing, histVars>>
    /\ UNCHANGED <<tubeVars, confVars, raised, lastStatus, lastLog, switchVars,
                   serverVars>>

\* ------------------------------------------------------ stop and restart
\* the public call stop()
StopCall(t) ==
    /\ FreeTask(t)
    /\ Stop(t, isActive, procState, retryCount, currentFile, backoffs,
            "stopGrace", "idle")
    /\ UNCHANGED <<placeholderExists, exitCode, queueVars, histVars>>
    /\ UNCHANGED extVars

\* where a task continues once the stop() it awaits has returned
AfterStop(label) == IF label = "restartStopGrace" THEN "restartPause" ELSE "idle"

\* stop() after its grace period: lines 586-590
StopReturn(t) ==
    /\ pc[t] \in {"stopGrace", "forcedStopGrace", "restartStopGrace"}
    /\ currentStreamProcess' = NoProcess
    /\ currentFile' = NoFile
    /\ retryCount' = 0
    /\ backoffs' = <<>>
    /\ pc' = [pc EXCEPT ![t] = AfterStop(pc[t])]
    /\ exitCode' = [exitCode EXCEPT ![t] = NoCode]
    /\ UNCHANGED <<isActive, placeholderExists, procState>>
    /\ UNCHANGED <<queueVars, histVars>>
    /\ UNCHANGED extVars

\* the public call restart(): stop(), then the two-second pause
RestartCall(t) ==
    /\ FreeTask(t)
    /\ Stop(t, isActive, procState, retryCount, currentFile, backoffs,
            "restartStopGrace", "restartPause")
    /\ UNCHANGED <<placeholderExists, exitCode, queueVars, histVars>>
    /\ UNCHANGED extVars

\* restart() after its pause: start()
RestartPauseFire(t) ==
    /\ pc[t] = "restartPause"
    /\ StartEnter(t, isActive)
    /\ UNCHANGED <<currentStreamProcess, isActive, currentFile, retryCount,
                   placeholderExists, procState, exitCode, backoffs>>
    /\ UNCHANGED <<queueVars, histVars>>
    /\ UNCHANGED extVars

\* ---------------------------------------- queue calls on the live engine
AddToQueueCall(videoPaths) ==
    /\ videoQueue' = AddToQueue(videoQueue, videoPaths, existing)
    /\ UNCHANGED <<videoQueueTemp, isLoop, totalStreamed, existing>>
    /\ UNCHANGED <<engineVars, histVars>>
    /\ UNCHANGED extVars

RemoveFromQueueCall(index) ==
    /\ videoQueue' = RemoveFromQueue(videoQueue, index).queue
    /\ UNCHANGED <<videoQueueTemp, isLoop, totalStreamed, existing>>
    /\ UNCHANGED <<engineVars, histVars>>
    /\ UNCHANGED extVars

\* mutant: a clearQueue that also forgets the source being played
ClearQueueCallForgetsCurrent ==
    /\ videoQueue' = <<>>
    /\ videoQueueTemp' = <<>>
    /\ currentFile' = NoFile
    /\ UNCHANGED <<currentStreamProcess, isActive, retryCount, placeholderExists,
                   pc, procState, exitCode, backoffs>>
    /\ UNCHANGED <<isLoop, totalStreamed, existing, histVars>>
    /\ UNCHANGED extVars

\* the public call clearQueue()
ClearQueueCall ==
    /\ videoQueue' = ClearQueue(videoQueue, videoQueueTemp).queue
    /\ videoQueueTemp' = ClearQueue(videoQueue, videoQueueTemp).temp
    /\ UNCHANGED <<isLoop, totalStreamed, existing>>
    /\ UNCHANGED <<engineVars, histVars>>
    /\ UNCHANGED extVars

SetLoopCall(loop) ==
    /\ isLoop' = loop
    /\ UNCHANGED <<videoQueue, videoQueueTemp, totalStreamed, existing>>
    /\ UNCHANGED <<engineVars, histVars>>
    /\ UNCHANGED extVars

\* environment: the placeholder file appears or disappears
PlaceholderChange ==
    /\ placeholderExists' = ~placeholderExists
    /\ UNCHANGED <<currentStreamProcess, isActive, currentFile, retryCount,
                   pc, procState, exitCode, backoffs>>
    /\ UNCHANGED <<queueVars, histVars>>
    /\ UNCHANGED extVars

\* ------------------------------------------------------- specification
\* the fields of BaseStream after construction
InitEngine ==
    /\ videoQueue = <<>>
    /\ videoQueueTemp = <<>>
    /\ currentStreamProcess = NoProcess
    /\ isActive = FALSE
    /\ isLoop = FALSE
    /\ currentFile = NoFile
    /\ totalStreamed = 0
    /\ retryCount = 0
    /\ placeholderExists = TRUE
    /\ existing = Locators
    /\ pc = [t \in Tasks |-> "idle"]
    /\ procState = [t \in Tasks |-> "none"]
    /\ exitCode = [t \in Tasks |-> NoCode]
    /\ backoffs = <<>>
    /\ lastCall = NoCall
    /\ played = <<>>
    /\ raised = FALSE
    /\ procConfig = [t \in Tasks |-> DEFAULT_CONFIG]
    /\ lastStatus = NoStatus
    /\ pipe = [t \in Tasks |-> NoOutput]
    /\ written = [t \in Tasks |-> NoOutput]
    /\ lastLog = "none"
    /\ switching = [t \in Tasks |-> "none"]
    /\ lastSwitch = NoSwitch
    /\ activeStreams = {}
    /\ stopCalls = {}
    /\ serverPc = "idle"
    /\ lastAdd = NoAdd

\* the constructor with no configuration given: the defaults, which are valid
InitConfig ==
    /\ config = DEFAULT_CONFIG
    /\ lastUpdate = NoUpdate

Init ==
    /\ InitEngine
    /\ InitConfig
    /\ connectionTestCount = 0
    /\ isUsingBackup = FALSE
    /\ enableBackup = TRUE

\* Spec: start(), stop() and restart() called at any moment by up to MaxTasks
\* overlapping invocations, the playlist queued at any moment, looping off
\* (SpecPlay and SpecQueue cover looping).
Next ==
    \/ \E t \in Tasks : StartCall(t)
    \/ \E t \in Tasks, spawnOk \in BOOLEAN : StartSetup(t, spawnOk)
    \/ \E t \in Tasks, code \in ExitCodes : ExitObserved(t, code)
    \/ \E t \in Tasks : BackoffFire(t)
    \/ \E t \in Tasks, spawnOk \in BOOLEAN : PrePlayFire(t, spawnOk)
    \/ \E t \in Tasks : StopCall(t)
    \/ \E t \in Tasks : StopReturn(t)
    \/ \E t \in Tasks : RestartCall(t)
    \/ \E t \in Tasks : RestartPauseFire(t)
    \/ \E videoPaths \in {Playlist} : AddToQueueCall(videoPaths)
    \/ PlaceholderChange

Spec == Init /\ [][Next]_vars

\* ================================================================
\* SpecQueue: the queue operations on their own.  The calls that touch
\* videoQueue, videoQueueTemp, isLoop and totalStreamed, applied in any
\* order, on local files that exist.
Call(op, r, temp) ==
    [op |-> op, args |-> <<>>, queue |-> videoQueue, ret |-> r, temp |-> temp]
Bool(b) == IF b THEN "true" ELSE "false"

QAdd(videoPaths) ==
    /\ videoQueue' = AddToQueue(videoQueue, videoPaths, existing)
    /\ lastCall' = [Call("add", "void", videoQueueTemp) EXCEPT !.args = videoPaths]
    /\ played' = <<>>
    /\ UNCHANGED <<videoQueueTemp, isLoop, totalStreamed, existing, engineVars>>
    /\ UNCHANGED extVars

QRemove(index) ==
    /\ videoQueue' = RemoveFromQueue(videoQueue, index).queue
    /\ lastCall' = Call("remove", Bool(RemoveFromQueue(videoQueue, index).removed),
                        videoQueueTemp)
    /\ played' = <<>>
    /\ UNCHANGED <<videoQueueTemp, isLoop, totalStreamed, existing, engineVars>>
    /\ UNCHANGED extVars

QClear ==
    /\ videoQueue' = ClearQueue(videoQueue, videoQueueTemp).queue
    /\ videoQueueTemp' = ClearQueue(videoQueue, videoQueueTemp).temp
    /\ lastCall' = Call("clear", "void", <<>>)
    /\ played' = <<>>
    /\ UNCHANGED <<isLoop, totalStreamed, existing, engineVars>>
    /\ UNCHANGED extVars

QSetLoop(loop) ==
    /\ isLoop' = loop
    /\ lastCall' = Call("setLoop", "void", videoQueueTemp)
    /\ played' = <<>>
    /\ UNCHANGED <<videoQueue, videoQueueTemp, totalStreamed, existing, engineVars>>
    /\ UNCHANGED extVars

\* start(), lines 534-536: seed the active list, then the first getNextVideo
QStart ==
    /\ totalStreamed + Len(videoQueueTemp) + Len(videoQueue) <= MaxStreamed
    /\ LET n == GetNextVideo(videoQueueTemp \o videoQueue, videoQueue,
                             isLoop, totalStreamed)
       IN /\ videoQueueTemp' = n.temp
          /\ totalStreamed' = n.total
          /\ played' = <<n.path>>
    /\ lastCall' = Call("start", "void", videoQueueTemp \o videoQueue)
    /\ UNCHANGED <<videoQueue, isLoop, existing, engineVars>>
    /\ UNCHANGED extVars

\* streamNext, line 512: getNextVideo
QNext ==
    /\ Len(played) < MaxPlayed
    /\ LET n == GetNextVideo(videoQueueTemp, videoQueue, isLoop, totalStreamed)
       IN /\ videoQueueTemp' = n.temp
          /\ totalStreamed' = n.total
          /\ played' = Append(played, n.path)
    /\ UNCHANGED <<videoQueue, isLoop, existing, lastCall, engineVars>>
    /\ UNCHANGED extVars

NextQueue ==
    \/ \E videoPaths \in SeqsUpTo(Files, MaxArgs) : QAdd(videoPaths)
    \/ \E index \in -1..Cardinality(Files) : QRemove(index)
    \/ QClear
    \/ \E loop \in BOOLEAN : QSetLoop(loop)
    \/ QStart
    \/ QNext

SpecQueue == Init /\ [][NextQueue]_vars

\* ================================================================
\* SpecPlay: one playback chain with a live queue.  Task 1 runs start() and
\* the chain it begins, task 2 calls stop(), and the queue calls arrive at
\* any moment in between.
NextPlay ==
    \/ \E t \in {1} : StartCall(t)
    \/ \E t \in {1}, spawnOk \in BOOLEAN : StartSetup(t, spawnOk)
    \/ \E t \in {1}, code \in ExitCodes : ExitObserved(t, code)
    \/ \E t \in {1} : BackoffFire(t)
    \/ \E t \in {1}, spawnOk \in BOOLEAN : PrePlayFire(t, spawnOk)
    \/ \E t \in {2} : StopCall(t)
    \/ \E t \in {1, 2} : StopReturn(t)
    \/ \E videoPaths \in SeqsUpTo(Files, MaxArgs) : AddToQueueCall(videoPaths)
    \/ \E index \in -1..Cardinality(Files) : RemoveFromQueueCall(index)
    \/ ClearQueueCall
    \/ \E loop \in BOOLEAN : SetLoopCall(loop)

SpecPlay == Init /\ [][NextPlay]_vars

\* ================================================================
\* SpecAdd: the persistent queue and the resources behind its locators.
\* Local files appear and disappear and URLs become reachable or
\* unreachable between the calls of addToQueue, removeFromQueue and
\* clearQueue.
ResourceChange(p) ==
    /\ existing' = IF p \in existing THEN existing \ {p} ELSE existing \cup {p}
    /\ lastCall' = Call("resource", "void", videoQueueTemp)
    /\ played' = <<>>
    /\ UNCHANGED <<videoQueue, videoQueueTemp, isLoop, totalStreamed, engineVars>>
    /\ UNCHANGED extVars

NextAdd ==
    \/ \E videoPaths \in SeqsUpTo(Locators, MaxArgs) : QAdd(videoPaths)
    \/ \E index \in -1..Cardinality(Files) : QRemove(index)
    \/ QClear
    \/ \E p \in Locators : ResourceChange(p)

SpecAdd == Init /\ [][NextAdd]_vars

\* ======================================================= claims C1 - C5
Min(a, b) == IF a < b THEN a ELSE b
Running == {t \in Tasks : procState[t] = "running"}
\* task t spawns a process in this step
Spawns(t) == procState[t] # "running" /\ procState'[t] = "running"
\* task t is resumed in this step by a process exit the engine takes for a success
SuccessObserved(t) == pc[t] = "awaitExit" /\ isActive /\ exitCode'[t] \in {0, 255}
\* the playback chain of task t stops the engine by itself in this step
ForcesStop(t) ==
    /\ pc[t] \in {"awaitExit", "prePlay"}
    /\ pc'[t] # pc[t]
    /\ isActive /\ ~isActive'

\* C1: at every moment at most one process spawned by the engine is running,
\* that is, has neither exited nor been sent the kill of stop().
C1_AtMostOneProcess == Cardinality(Running) <= 1

\* C2: while the engine stays inactive (stop() has cleared the flag and no
\* start() has set it again) no step spawns a process or sets a new current
\* source.
C2_NoPlayWhileStopped ==
    [][(~isActive /\ ~isActive') =>
          /\ \A t \in Tasks : ~Spawns(t)
          /\ currentFile' \in {currentFile, NoFile}]_vars

\* the delays scheduled since retryCount was last 0
C3_Delays == backoffs = SubSeq(<<2, 4, 6>>, 1, Min(retryCount, 3))
\* what the chain does after a backoff, and at the retry ceiling
C3_Step ==
    \A t \in Tasks :
      /\ (pc[t] = "backoff" /\ pc'[t] # "backoff") =>
            pc'[t] = (IF isActive THEN "prePlay" ELSE "idle")
      /\ (pc[t] = "prePlay" /\ pc'[t] # "prePlay" /\ videoQueueTemp # <<>>) =>
            /\ videoQueueTemp' = Tail(videoQueueTemp)
            /\ Spawns(t) => currentFile' = Head(videoQueueTemp)
      /\ (pc[t] = "awaitExit" /\ pc'[t] \notin {"awaitExit", "prePlay"}
            /\ isActive /\ retryCount = 3) =>
            /\ ~isActive'
            /\ pc'[t] \in {"forcedStopGrace", "idle"}
            /\ \A u \in Tasks : ~Spawns(u)
\* C3: the backoff delays scheduled since retryCount was last 0 are 2, 4, 6 in
\* that order, one per failure and never a fourth; after a backoff the chain
\* goes on to the next source of the queue (or ends if stopped); and a failure
\* at retryCount = 3 schedules nothing and stops the engine.
C3_RetryCeiling == []C3_Delays /\ [][C3_Step]_vars
C3_Witness ==
    \E t \in Tasks :
      /\ pc[t] = "forcedStopGrace" /\ exitCode[t] = 1
      /\ retryCount = 4 /\ backoffs = <<2, 4, 6>> /\ ~isActive

\* a success resets the count; a forced stop has three backoffs behind it
C4_Step ==
    \A t \in Tasks :
      /\ SuccessObserved(t) =>
            retryCount' = 0 /\ backoffs' = <<>> /\ pc'[t] = "prePlay"
      /\ ForcesStop(t) => Len(backoffs) = 3
\* C4: a successful exit (code 0 or 255) observed while active sets retryCount
\* to 0 and schedules the next source; and the chain stops the engine by itself
\* only when three failures, each with its backoff, came before the failing one
\* with no success between them.
C4_SuccessResets == [][C4_Step]_vars
C4_Witness ==
    \E t \in Tasks :
      /\ pc[t] = "prePlay" /\ exitCode[t] \in {0, 255}
      /\ currentFile = placeholderPath
      /\ isActive /\ retryCount = 0

\* C5: the health getStatus() reports is 'error' iff the engine is not active,
\* 'warning' iff it is active with retryCount > 1, 'healthy' iff it is active
\* with retryCount <= 1.
C5_Health ==
    /\ GetStatus.health = "error" <=> ~isActive
    /\ GetStatus.health = "warning" <=> (isActive /\ retryCount > 1)
    /\ GetStatus.health = "healthy" <=> (isActive /\ retryCount <= 1)
C5_Witness == isActive /\ retryCount = 2 /\ GetStatus.health = "warning"

\* ===================================================== claims C6 - C10
IsSuffix(a, q) ==
    Len(a) <= Len(q) /\ SubSeq(q, Len(q) - Len(a) + 1, Len(q)) = a
\* getNextVideo is called in this step (by QNext, or by QStart after seeding)
NextCalled ==
    /\ played' # <<>>
    /\ <<videoQueueTemp, totalStreamed, played>>' # <<videoQueueTemp, totalStreamed, played>>
StartCalled == NextCalled /\ Len(played') = 1 /\ lastCall'.op = "start"
\* the active list that call finds, and what it returns
ActiveSeen == IF StartCalled THEN videoQueueTemp \o videoQueue ELSE videoQueueTemp
Returned == played'[Len(played')]

\* C6: with looping enabled and a non-empty persistent queue left alone since
\* the last queue call, getNextVideo returns the queue's locators in queue
\* order, cyclically (from where the active list stood), never the placeholder.
C6_LoopOrder ==
    (isLoop /\ videoQueue # <<>> /\ IsSuffix(lastCall.temp, videoQueue)) =>
        \A i \in 1..Len(played) :
            played[i] = videoQueue[((Len(videoQueue) - Len(lastCall.temp) + i - 1)
                                     % Len(videoQueue)) + 1]
C6_Witness ==
    /\ isLoop /\ videoQueue = <<"A", "B">> /\ lastCall.temp = <<>>
    /\ played = <<"A", "B", "A", "B">>

\* one call of getNextVideo: what it returns
C7_Step ==
    NextCalled =>
        /\ Returned \in Locators \cup {placeholderPath}
        /\ Returned = placeholderPath <=>
              (ActiveSeen = <<>> /\ (~isLoop \/ videoQueue = <<>>))
\* the calls since the last queue call, looping off
C7_NoLoop ==
    ~isLoop =>
        \A i \in 1..Len(played) :
            played[i] = IF i <= Len(lastCall.temp) THEN lastCall.temp[i]
                        ELSE placeholderPath
\* C7: getNextVideo always returns a locator, the placeholder exactly when the
\* active list is empty and looping is off or the persistent queue is empty;
\* with looping off, the calls after a queue call return the active list it
\* left, in order, and then only the placeholder.
C7_AlwaysALocator == []C7_NoLoop /\ [][C7_Step]_vars
C7_Witness ==
    /\ ~isLoop /\ videoQueue = <<"A">>
    /\ lastCall.op = "start" /\ lastCall.temp = <<"A">>
    /\ played = <<"A", placeholderPath, placeholderPath>>

\* one call of removeFromQueue or getNextVideo: its effect on the active list
C8_Step ==
    /\ (lastCall'.op = "remove" /\ played' = <<>>) =>
          videoQueueTemp' = videoQueueTemp
    /\ (NextCalled /\ ActiveSeen # <<>>) =>
          Returned = Head(ActiveSeen) /\ videoQueueTemp' = Tail(ActiveSeen)
    /\ (NextCalled /\ ActiveSeen = <<>> /\ isLoop /\ videoQueue # <<>>) =>
          /\ Returned = Head(videoQueue)
          /\ videoQueueTemp' = Tail(videoQueue)
          /\ videoQueue' = videoQueue
\* C8: removeFromQueue leaves the active list alone; a getNextVideo that finds
\* the active list non-empty pops its head; one that finds it empty (looping,
\* queue non-empty) returns the head of the persistent queue as it is then and
\* leaves the rest of that queue as the active list.
C8_RefillIsCurrent == [][C8_Step]_vars
C8_Witness ==
    /\ lastCall = [op |-> "remove", args |-> <<>>, queue |-> <<"A", "B">>,
                   ret |-> "true", temp |-> <<"B">>]
    /\ isLoop /\ videoQueue = <<"B">>
    /\ played = <<"B", "B">> /\ videoQueueTemp = <<>>

\* C10: after clearQueue both lists are empty, whatever the loop mode, and
\* the calls of getNextVideo that follow return the placeholder.
C10_ClearEmptiesBoth ==
    lastCall.op = "clear" =>
        /\ videoQueue = <<>> /\ videoQueueTemp = <<>>
        /\ \A i \in 1..Len(played) : played[i] = placeholderPath
C10_Witness ==
    /\ lastCall.op = "clear" /\ lastCall.queue = <<"A", "B">>
    /\ isLoop /\ totalStreamed = 1
    /\ played = <<placeholderPath>>

\* a step that is a call of addToQueue / of removeFromQueue
AddStep == \E videoPaths \in SeqsUpTo(Files, MaxArgs) : AddToQueueCall(videoPaths)
RemoveStep == \E index \in -1..Cardinality(Files) : RemoveFromQueueCall(index)
\* C9 (as claimed): a step of addToQueue, removeFromQueue or clearQueue leaves
\* the currently playing source and the rest of the active list as they were.
C9_OnlyPersistentQueue ==
    [][(AddStep \/ RemoveStep \/ ClearQueueCall) =>
          (currentFile' = currentFile /\ videoQueueTemp' = videoQueueTemp)]_vars

\* the effect of each queue call on the source playing and the active list
C9_Step ==
    /\ (AddStep \/ RemoveStep) =>
          (currentFile' = currentFile /\ videoQueueTemp' = videoQueueTemp)
    /\ ClearQueueCall => (currentFile' = currentFile /\ videoQueueTemp' = <<>>)
\* C9 (amended): addToQueue and removeFromQueue leave the currently playing
\* source and the rest of the active list as they were; clearQueue leaves the
\* currently playing source as it was and empties the active list.
C9_AddRemoveOnlyPersistent == [][C9_Step]_vars
C9_Witness ==
    /\ pc[1] = "awaitExit" /\ procState[1] = "running" /\ isActive
    /\ currentFile = "A" /\ videoQueueTemp = <<"B">> /\ videoQueue = <<"B">>

\* ================================================================
\* SpecTube: the YouTube engine, whose start() tests the connection to the
\* primary server, and to the backup server if that test fails, before it
\* goes on to BaseStream.start().  The queue stays empty: the engine plays
\* the placeholder.
\* testRTMPConnection(backupRtmpUrl) up to its await, with count tests made
\* before it: the test is skipped at maxConnectionTests, else counted; it
\* then awaits the exit of the test process, unless the spawn throws; a
\* test that gives false at once is followed by super.start()
TubeTestBackup(t, count, spawnOk) ==
    /\ connectionTestCount' = IF count >= maxConnectionTests THEN count ELSE count + 1
    /\ IF count < maxConnectionTests /\ spawnOk
       THEN pc' = [pc EXCEPT ![t] = "testBackup"]
       ELSE StartEnter(t, isActive)

\* YouTubeStream.start() once the test of the primary server has answered
TubeAfterPrimary(t, primaryWorking, count, spawnOk) ==
    IF ~primaryWorking /\ enableBackup
    THEN TubeTestBackup(t, count, spawnOk)
    ELSE /\ connectionTestCount' = count
         /\ StartEnter(t, isActive)

\* YouTubeStream.start(), run by task t up to its first await: the test of
\* the primary server
TubeStart(t, spawnOk, backupSpawnOk) ==
    /\ IF connectionTestCount >= maxConnectionTests
       THEN TubeAfterPrimary(t, FALSE, connectionTestCount, backupSpawnOk)
       ELSE IF spawnOk
       THEN /\ connectionTestCount' = connectionTestCount + 1
            /\ pc' = [pc EXCEPT ![t] = "testPrimary"]
       ELSE TubeAfterPrimary(t, FALSE, connectionTestCount + 1, backupSpawnOk)
    /\ UNCHANGED <<currentStreamProcess, isActive, currentFile, retryCount,
                   placeholderExists, procState, exitCode, backoffs>>
    /\ UNCHANGED <<queueVars, histVars>>

\* the public call start() of the YouTube engine
TubeStartCall(t, spawnOk, backupSpawnOk) ==
    /\ FreeTask(t)
    /\ UNCHANGED <<confVars, raised, procConfig, lastStatus>>
    /\ UNCHANGED <<outVars, switchVars, serverVars>>
    /\ TubeStart(t, spawnOk, backupSpawnOk)
    /\ UNCHANGED <<isUsingBackup, enableBackup>>

\* the test process of the primary server exits
TubePrimaryExit(t, code, backupSpawnOk) ==
    /\ pc[t] = "testPrimary"
    /\ UNCHANGED <<confVars, raised, procConfig, lastStatus>>
    /\ UNCHANGED <<outVars, switchVars, serverVars>>
    /\ TubeAfterPrimary(t, code = 0, connectionTestCount, backupSpawnOk)
    /\ UNCHANGED <<isUsingBackup, enableBackup>>
    /\ UNCHANGED <<currentStreamProcess, isActive, currentFile, retryCount,
                   placeholderExists, procState, exitCode, backoffs>>
    /\ UNCHANGED <<queueVars, histVars>>

\* the test process of the backup server exits
TubeBackupExit(t, code) ==
    /\ pc[t] = "testBackup"
    /\ UNCHANGED <<confVars, raised, procConfig, lastStatus>>
    /\ UNCHANGED <<outVars, switchVars, serverVars>>
    /\ isUsingBackup' = IF code = 0 THEN TRUE ELSE isUsingBackup
    /\ StartEnter(t, isActive)
    /\ UNCHANGED <<connectionTestCount, enableBackup>>
    /\ UNCHANGED <<currentStreamProcess, isActive, currentFile, retryCount,
                   placeholderExists, procState, exitCode, backoffs>>
    /\ UNCHANGED <<queueVars, histVars>>

InitTube ==
    /\ InitEngine
    /\ InitConfig
    /\ connectionTestCount = 0
    /\ isUsingBackup = FALSE
    /\ enableBackup \in BOOLEAN

NextTube ==
    \/ \E t \in Tasks, spawnOk, backupSpawnOk \in BOOLEAN :
          TubeStartCall(t, spawnOk, backupSpawnOk)
    \/ \E t \in Tasks, code \in ExitCodes, backupSpawnOk \in BOOLEAN :
          TubePrimaryExit(t, code, backupSpawnOk)
    \/ \E t \in Tasks, code \in ExitCodes : TubeBackupExit(t, code)
    \/ \E t \in Tasks, spawnOk \in BOOLEAN : StartSetup(t, spawnOk)
    \/ \E t \in Tasks, code \in ExitCodes : ExitObserved(t, code)
    \/ \E t \in Tasks : BackoffFire(t)
    \/ \E t \in Tasks, spawnOk \in BOOLEAN : PrePlayFire(t, spawnOk)
    \/ \E t \in Tasks : StopCall(t)
    \/ \E t \in Tasks : StopReturn(t)

SpecTube == InitTube /\ [][NextTube]_vars

\* ================================================================
\* SpecSwitch: the YouTube engine with its calls switchToBackupServer() and
\* switchToPrimaryServer().  On an active engine a switch stops the engine,
\* sets the selection and awaits start(); the code that follows an await
\* that has been answered runs before any timer or exit is handled.
\* getStreamArgs: the server the next spawn sends to
SinkServer(usingBackup) == IF usingBackup THEN "backup" ELSE "primary"

\* the guard of switchToBackupServer / switchToPrimaryServer; the address of
\* the backup server is always set by the constructor
SwitchRefused(target) ==
    IF target = "backup" THEN ~enableBackup \/ isUsingBackup ELSE ~isUsingBackup

\* a task that goes on without waiting for anything
Urgent ==
    \E t \in Tasks : \/ pc[t] = "switchSet"
                     \/ pc[t] = "idle" /\ switching[t] # "none"

\* the public calls switchToBackupServer() and switchToPrimaryServer(), up to
\* the first await
SwitchCall(t, target) ==
    /\ FreeTask(t)
    /\ IF SwitchRefused(target)
       THEN /\ lastSwitch' = [target |-> target, ret |-> "false"]
            /\ UNCHANGED <<engineVars, tubeVars, switching>>
       ELSE IF ~isActive
       THEN /\ isUsingBackup' = (target = "backup")
            /\ lastSwitch' = [target |-> target, ret |-> "true"]
            /\ UNCHANGED <<engineVars, connectionTestCount, enableBackup, switching>>
       ELSE /\ Stop(t, isActive, procState, retryCount, currentFile, backoffs,
                    "switchStopGrace", "switchSet")
            /\ switching' = [switching EXCEPT ![t] = target]
            /\ UNCHANGED <<placeholderExists, exitCode, tubeVars, lastSwitch>>
    /\ UNCHANGED <<queueVars, histVars>>
    /\ UNCHANGED <<confVars, raised, procConfig, lastStatus, outVars, serverVars>>

\* the stop() of a switch after its grace period: lines 586-590
SwitchStopReturn(t) ==
    /\ pc[t] = "switchStopGrace"
    /\ currentStreamProcess' = NoProcess
    /\ currentFile' = NoFile
    /\ retryCount' = 0
    /\ backoffs' = <<>>
    /\ pc' = [pc EXCEPT ![t] = "switchSet"]
    /\ exitCode' = [exitCode EXCEPT ![t] = NoCode]
    /\ UNCHANGED <<isActive, placeholderExists, procState>>
    /\ UNCHANGED <<queueVars, histVars>>
    /\ UNCHANGED extVars

\* a switch once its stop() has returned: the selection is set and start()
\* is called
SwitchSet(t, spawnOk, backupSpawnOk) ==
    /\ pc[t] = "switchSet"
    /\ isUsingBackup' = (switching[t] = "backup")
    /\ TubeStart(t, spawnOk, backupSpawnOk)
    /\ UNCHANGED <<enableBackup, switchVars>>
    /\ UNCHANGED <<confVars, raised, procConfig, lastStatus, outVars, serverVars>>

\* a switch whose start() has returned returns true
SwitchReturn(t) ==
    /\ pc[t] = "idle" /\ switching[t] # "none"
    /\ lastSwitch' = [target |-> switching[t], ret |-> "true"]
    /\ switching' = [switching EXCEPT ![t] = "none"]
    /\ UNCHANGED <<engineVars, queueVars, histVars>>
    /\ UNCHANGED <<tubeVars, confVars, raised, procConfig, lastStatus, outVars,
                   serverVars>>

NextSwitch ==
    \/ ~Urgent /\ NextTube
    \/ ~Urgent /\ \E t \in Tasks, target \in {"primary", "backup"} :
                     SwitchCall(t, target)
    \/ ~Urgent /\ \E t \in Tasks : SwitchStopReturn(t)
    \/ \E t \in Tasks, spawnOk, backupSpawnOk \in BOOLEAN :
          SwitchSet(t, spawnOk, backupSpawnOk)
    \/ \E t \in Tasks : SwitchReturn(t)

SpecSwitch == InitTube /\ [][NextSwitch]_vars

\* ================================================================
\* SpecConfig: the configuration.  An engine is constructed with any
\* configuration the constructor accepts and updateConfig is then called
\* with any partial configuration.  The codecs, which validateConfig does
\* not look at, are left out.
\* /^\d+x\d+$/
MatchesResolution(str) ==
    \E i \in 2..(Len(str) - 1) :
        /\ str[i] = "x"
        /\ \A j \in (1..Len(str)) \ {i} : str[j] \in Digits

\* /^\d+k$/
MatchesBitrate(str) ==
    /\ Len(str) >= 2
    /\ str[Len(str)] = "k"
    /\ \A j \in 1..(Len(str) - 1) : str[j] \in Digits

\* mutant: the upper limit of the framerate left out
ValidateConfigNoUpperLimit(c) ==
    /\ MatchesResolution(c.resolution)
    /\ ~(c.framerate <= 0)
    /\ MatchesBitrate(c.videoBitrate)
    /\ MatchesBitrate(c.audioBitrate)

\* validateConfig: TRUE when it returns, FALSE when it throws
ValidateConfig(c) ==
    /\ MatchesResolution(c.resolution)
    /\ ~(c.framerate <= 0 \/ c.framerate > 1200)
    /\ MatchesBitrate(c.videoBitrate)
    /\ MatchesBitrate(c.audioBitrate)

\* an optional property of a Partial<StreamConfig>
Optional(values) ==
    {[given |-> TRUE, val |-> v] : v \in values}
        \cup {[given |-> FALSE, val |-> CHOOSE v \in values : TRUE]}
Partials ==
    [resolution : Optional(Resolutions), framerate : Optional(Framerates),
     videoBitrate : Optional(VideoBitrates), audioBitrate : Optional(AudioBitrates)]

\* mutant: an assignment that drops the values given
AssignNothing(c, partial) == c

\* Object.assign(c, partial), and { ...c, ...partial }
Assign(c, partial) ==
    [f \in DOMAIN c |-> IF partial[f].given THEN partial[f].val ELSE c[f]]

\* updateConfig(partial): Object.assign, then validateConfig
UpdateConfig(partial) ==
    /\ config' = Assign(config, partial)
    /\ lastUpdate' = [called |-> TRUE, before |-> config,
                      raised |-> ~ValidateConfig(Assign(config, partial))]
    /\ UNCHANGED <<engineVars, queueVars, histVars, tubeVars, raised, procConfig,
                   lastStatus, outVars, switchVars, serverVars>>

\* new BaseStream(partial): the engine exists if validateConfig did not throw
InitConstructed ==
    /\ InitEngine
    /\ connectionTestCount = 0
    /\ isUsingBackup = FALSE
    /\ enableBackup = TRUE
    /\ \E partial \in Partials :
          /\ config = Assign(DEFAULT_CONFIG, partial)
          /\ ValidateConfig(config)
    /\ lastUpdate = [called |-> FALSE, before |-> config, raised |-> FALSE]

NextConfig == \E partial \in Partials : UpdateConfig(partial)

SpecConfig == InitConstructed /\ [][NextConfig]_vars

\* ==================================================== claims C11 - C20
\* C11: no two entries of the persistent queue have the same locator.
C11_QueueUnique == Cardinality(Range(videoQueue)) = Len(videoQueue)

\* addToQueue is called in this step and changes something
AddCalled == lastCall'.op = "add" /\ lastCall' # lastCall
\* the entries that call appends
Added == SubSeq(videoQueue', Len(videoQueue) + 1, Len(videoQueue'))

\* C12: addToQueue keeps the queue it finds and appends only locators it was
\* given; it appends no local file that does not exist at the call, and it
\* does admit every local file it was given that exists.
C12_OnlyExistingFiles ==
    [][AddCalled =>
          /\ SubSeq(videoQueue', 1, Len(videoQueue)) = videoQueue
          /\ \A i \in 1..Len(Added) :
                /\ Added[i] \in Range(lastCall'.args)
                /\ Added[i] \in Files => Added[i] \in existing
          /\ \A f \in (Range(lastCall'.args) \cap Files) \cap existing :
                f \in Range(videoQueue')]_vars
C12_Witness ==
    /\ lastCall.op = "add" /\ lastCall.args = <<"A", "B">> /\ lastCall.queue = <<>>
    /\ existing \cap Files = {"A"}
    /\ videoQueue = <<"A">>

TestSpawned(t) == pc'[t] \in {"testPrimary", "testBackup"} /\ pc'[t] # pc[t]
\* no process is spawned or killed and the run state stays as it is
NoOp ==
    /\ \A u \in Tasks : ~Spawns(u) /\ ~TestSpawned(u)
    /\ procState' = procState
    /\ <<isActive, currentFile, retryCount, videoQueueTemp>>' =
          <<isActive, currentFile, retryCount, videoQueueTemp>>

\* C14: on the YouTube engine, a stop() called while the engine is inactive
\* and a start() called while it is active spawn and kill no process and
\* leave the run state unchanged.
C14_NoOpCalls ==
    [][\A t \in Tasks :
          /\ (~isActive /\ StopCall(t)) => NoOp
          /\ (isActive /\ \E spawnOk, backupSpawnOk \in BOOLEAN :
                            TubeStartCall(t, spawnOk, backupSpawnOk)) => NoOp]_vars

\* C15: when updateConfig has raised, the configuration is the one the call
\* found.
C15_NoPartialUpdate == lastUpdate.raised => config = lastUpdate.before

\* the framerate is an integer (a whole number of tenths) from 1 to 120
IsFramerate(tenths) == tenths % 10 = 0 /\ tenths >= 10 /\ tenths <= 1200
\* C16: the constructor accepts, and updateConfig returns on, exactly the
\* configurations whose framerate is an integer in [1,120] and whose
\* resolution and bitrates match their patterns.
C16_ValidationExact ==
    /\ ~lastUpdate.called => IsFramerate(config.framerate)
    /\ lastUpdate.called =>
          (~lastUpdate.raised <=>
              /\ IsFramerate(config.framerate)
              /\ MatchesResolution(config.resolution)
              /\ MatchesBitrate(config.videoBitrate)
              /\ MatchesBitrate(config.audioBitrate))

\* C17: a start() that comes back from validatePlaceholder with the
\* placeholder missing raises and ends, spawns no process, and leaves the
\* engine inactive with the active list and retryCount as they were.
C17_MissingPlaceholder ==
    [][\A t \in Tasks :
          (pc[t] = "startValidate" /\ pc'[t] # "startValidate" /\ ~placeholderExists) =>
              /\ raised' /\ pc'[t] = "idle"
              /\ \A u \in Tasks : ~Spawns(u)
              /\ ~isActive'
              /\ videoQueueTemp' = videoQueueTemp
              /\ retryCount' = retryCount]_vars
C17_Witness ==
    /\ raised /\ ~placeholderExists /\ ~isActive
    /\ retryCount = 1 /\ videoQueueTemp = <<"B">>
    /\ \E t \in Tasks : pc[t] = "backoff"

\* a stop() called by task t on an active engine completes in this step
StopCompletes(t) ==
    \/ pc[t] = "stopGrace" /\ pc'[t] = "idle"
    \/ isActive /\ currentStreamProcess = NoProcess /\ StopCall(t)
\* C18: a stop() called on an active engine clears the flag in its first
\* step, and when it completes the engine is inactive, has no current source,
\* has retryCount 0, and none of its processes is running or about to be
\* spawned by a continuation in its pre-play delay.
C18_StopStops ==
    [][\A t \in Tasks :
          /\ (isActive /\ StopCall(t)) =>
                /\ ~isActive'
                /\ currentStreamProcess # NoProcess =>
                      procState'[currentStreamProcess] # "running"
          /\ StopCompletes(t) =>
                /\ ~isActive' /\ currentFile' = NoFile /\ retryCount' = 0
                /\ \A u \in Tasks : procState'[u] # "running" /\ pc'[u] # "prePlay"]_vars

\* a process failure handled by task t in this step: a failing exit observed
\* while active, or a spawn that throws
ExitFailed(t) == isActive /\ \E code \in ExitCodes \ {0, 255} : ExitObserved(t, code)
SpawnFailed(t) == PrePlayFire(t, FALSE) \/ (placeholderExists /\ StartSetup(t, FALSE))
\* retryCount as handleStreamError finds it
CountBefore(t) == IF pc[t] = "startValidate" THEN 0 ELSE retryCount
\* C19: the step that handles a process failure raises nothing; below the
\* ceiling it ends in a backoff with the active flag as it was, at the
\* ceiling it schedules no backoff and leaves the engine inactive, with
\* getStatus().health = 'error'.
C19_FailuresAbsorbed ==
    [][\A t \in Tasks :
          (ExitFailed(t) \/ SpawnFailed(t)) =>
              /\ ~raised' \/ raised' = raised
              /\ IF CountBefore(t) < MAX_RETRY_ATTEMPTS
                 THEN /\ pc'[t] = "backoff"
                      /\ isActive' = (isActive \/ pc[t] = "startValidate")
                 ELSE /\ pc'[t] \in {"forcedStopGrace", "idle"}
                      /\ backoffs' \in {backoffs, <<>>}
                      /\ ~isActive'
                      /\ GetStatus'.health = "error"]_vars
C19_Witness ==
    \E t \in Tasks :
      /\ pc[t] = "forcedStopGrace" /\ exitCode[t] = NoCode
      /\ retryCount = 4 /\ ~raised
      /\ GetStatus.health = "error"

\* the step runs the body of stop(): a call of stop(), a call of restart(),
\* or a failure handled at the retry ceiling
InsideStop(t) ==
    \/ StopCall(t) \/ RestartCall(t)
    \/ pc[t] \in {"awaitExit", "prePlay"} /\ retryCount >= MAX_RETRY_ATTEMPTS
\* the step runs the setup of start() past validatePlaceholder
InsideStartSetup(t) ==
    pc[t] = "startValidate" /\ pc'[t] # "startValidate" /\ placeholderExists
\* C20: the active flag goes from false to true only in the setup of start()
\* and from true to false only in stop().
C20_FlagOwners ==
    [][/\ (~isActive /\ isActive') => \E t \in Tasks : InsideStartSetup(t)
       /\ (isActive /\ ~isActive') => \E t \in Tasks : InsideStop(t)]_vars

\* ==================================================== claims C21 - C30
\* C21: when the setup of start() runs on an inactive engine with a non-empty
\* persistent queue, the first source played is the head of that queue and
\* the active list it leaves is the rest of that queue.
C21_StartSeedsFromQueue ==
    [][\A t \in Tasks :
          (InsideStartSetup(t) /\ ~isActive /\ videoQueue # <<>>) =>
              /\ currentFile' = Head(videoQueue)
              /\ videoQueueTemp' = Tail(videoQueue)]_vars

\* ================================================================
\* SpecUpdate: one playback chain with a live configuration.  Task 1 runs
\* start() and the chain it begins, task 2 calls stop(), and updateConfig
\* arrives at any moment in between with a frame rate, valid or not.
FramerateOnly ==
    {partial \in Partials : /\ ~partial.resolution.given
                            /\ ~partial.videoBitrate.given
                            /\ ~partial.audioBitrate.given}

NextUpdate ==
    \/ \E t \in {1} : StartCall(t)
    \/ \E t \in {1}, spawnOk \in BOOLEAN : StartSetup(t, spawnOk)
    \/ \E t \in {1}, code \in ExitCodes : ExitObserved(t, code)
    \/ \E t \in {1} : BackoffFire(t)
    \/ \E t \in {1}, spawnOk \in BOOLEAN : PrePlayFire(t, spawnOk)
    \/ \E t \in {2} : StopCall(t)
    \/ \E t \in {1, 2} : StopReturn(t)
    \/ \E partial \in FramerateOnly : UpdateConfig(partial)

SpecUpdate == Init /\ [][NextUpdate]_vars

\* what updateConfig and a spawn do to the configuration and to the engine
C22_Step ==
    /\ \A partial \in FramerateOnly :
          UpdateConfig(partial) =>
              /\ UNCHANGED <<engineVars, queueVars, procConfig>>
              /\ ~lastUpdate'.raised =>
                     \A f \in DOMAIN config :
                        config'[f] = IF partial[f].given THEN partial[f].val
                                                         ELSE config[f]
    /\ \A t \in Tasks :
          procConfig'[t] = IF Spawns(t) THEN config ELSE procConfig[t]
NextStatus ==
    \/ \E t \in {1} : StartCall(t)
    \/ \E t \in {1}, spawnOk \in BOOLEAN : StartSetup(t, spawnOk)
    \/ \E t \in {1}, code \in ExitCodes : ExitObserved(t, code)
    \/ \E t \in {1} : BackoffFire(t)
    \/ \E t \in {1}, spawnOk \in BOOLEAN : PrePlayFire(t, spawnOk)
    \/ \E t \in {2} : StopCall(t)
    \/ \E t \in {1, 2} : StopReturn(t)
    \/ AddToQueueCall(Playlist)
    \/ GetStatusCall

SpecStatus == Init /\ [][NextStatus]_vars

\* C23: a call of getStatus() changes nothing of the engine, and what it
\* returns is the active flag, the current source, the played counter, the
\* length of the persistent queue and the health of the state it is called in.
C23_StatusReadOnly ==
    [][lastStatus' # lastStatus =>
          /\ UNCHANGED <<engineVars, queueVars>>
          /\ lastStatus'.isStreaming = isActive
          /\ lastStatus'.currentFile = currentFile
          /\ lastStatus'.totalStreamed = totalStreamed
          /\ lastStatus'.queueCount = Len(videoQueue)
          /\ lastStatus'.health = DetermineHealth(isActive, retryCount)]_vars
C23_Witness ==
    /\ lastStatus = [isStreaming |-> TRUE, currentFile |-> "B", queueCount |-> 2,
                     totalStreamed |-> 2, health |-> "warning"]
    /\ videoQueueTemp = <<>> /\ procState[1] = "running"

\* C26: a call of addToQueue, removeFromQueue or clearQueue leaves the active
\* flag, the current source, the process handle, the process itself, the
\* position of every task and retryCount as they were.
C26_QueueCallsKeepPlayback ==
    [][(AddStep \/ RemoveStep \/ ClearQueueCall \/ videoQueue' # videoQueue) =>
          UNCHANGED <<isActive, currentFile, currentStreamProcess, procState,
                      retryCount, pc, backoffs>>]_vars
C26_Witness ==
    /\ isActive /\ procState[1] = "running" /\ pc[1] = "awaitExit"
    /\ currentFile = "A" /\ retryCount = 1
    /\ videoQueue = <<>> /\ videoQueueTemp = <<>>

\* ================================================================
\* SpecExit: one playback chain whose processes exit with any of a wider
\* range of exit codes.  Task 1 runs start() and the chain it begins, task 2
\* calls stop().
WideExitCodes == {0, 1, 143, 254, 255, 256}

NextExit ==
    \/ \E t \in {1} : StartCall(t)
    \/ \E t \in {1}, spawnOk \in BOOLEAN : StartSetup(t, spawnOk)
    \/ \E t \in {1}, code \in WideExitCodes : ExitObserved(t, code)
    \/ \E t \in {1} : BackoffFire(t)
    \/ \E t \in {1}, spawnOk \in BOOLEAN : PrePlayFire(t, spawnOk)
    \/ \E t \in {2} : StopCall(t)
    \/ \E t \in {1, 2} : StopReturn(t)
    \/ AddToQueueCall(Playlist)

SpecExit == Init /\ [][NextExit]_vars

\* what the step of task t does with a failure that finds retryCount at rc:
\* the count goes up by one; up to the ceiling a backoff of twice the new
\* count is scheduled, beyond it the engine is stopped
FailureHandled(t, rc) ==
    IF rc < MAX_RETRY_ATTEMPTS
    THEN /\ retryCount' = rc + 1
         /\ backoffs' = Append(IF pc[t] = "startValidate" THEN <<>> ELSE backoffs,
                               BASE_DELAY * (rc + 1))
         /\ pc'[t] = "backoff"
    ELSE /\ retryCount' \in {rc + 1, 0}
         /\ pc'[t] \in {"forcedStopGrace", "idle"}
         /\ ~isActive'
\* what the step of task t does with a success
SuccessHandled(t) ==
    retryCount' = 0 /\ backoffs' = <<>> /\ pc'[t] = "prePlay" /\ isActive'
\* C28: an exit observed while active is handled as a success exactly when
\* its code is 0 or 255 and as a failure for every other code; a spawn that
\* throws is handled as a failing exit is.
C28_ExitClassified ==
    [][\A t \in Tasks :
          /\ \A code \in WideExitCodes :
                (isActive /\ ExitObserved(t, code)) =>
                    IF code \in {0, 255} THEN SuccessHandled(t)
                                         ELSE FailureHandled(t, retryCount)
          /\ SpawnFailed(t) =>
                FailureHandled(t, CountBefore(t))]_vars
C28_Witness ==
    /\ pc[1] = "backoff" /\ exitCode[1] = 254 /\ retryCount = 2
    /\ backoffs = <<2, 4>> /\ isActive

\* one call of getNextVideo: its recursion and what it does to the counter
C29_Step ==
    NextCalled =>
        IF ActiveSeen # <<>>
        THEN /\ Recursions(ActiveSeen, videoQueue, isLoop) = 0
             /\ totalStreamed' = totalStreamed + 1
        ELSE IF isLoop /\ videoQueue # <<>>
        THEN /\ Recursions(ActiveSeen, videoQueue, isLoop) = 1
             /\ Returned = Head(videoQueue)
             /\ totalStreamed' = 1
        ELSE /\ Recursions(ActiveSeen, videoQueue, isLoop) = 0
             /\ Returned = placeholderPath
             /\ totalStreamed' = totalStreamed
\* C29: a call of getNextVideo that finds the active list empty, looping on
\* and the persistent queue non-empty calls itself once and returns the head
\* of the persistent queue with the played counter at 1; a call that pops
\* without a refill does not call itself and adds one to the counter; a call
\* that returns the placeholder does not call itself and leaves the counter
\* as it was.
C29_NextCounts == [][C29_Step]_vars
C29_Witness ==
    /\ isLoop /\ videoQueue = <<"A", "B">> /\ lastCall.op = "start"
    /\ played = <<"A", "B", "A">> /\ totalStreamed = 1
    /\ videoQueueTemp = <<"B">>

\* one call of removeFromQueue(index): what it returns and what it removes
C30_Step ==
    \A index \in -1..Cardinality(Files) :
        QRemove(index) =>
            /\ lastCall'.ret = Bool(0 <= index /\ index < Len(videoQueue))
            /\ raised' = raised
            /\ IF 0 <= index /\ index < Len(videoQueue)
               THEN /\ Len(videoQueue') = Len(videoQueue) - 1
                    /\ \A i \in 1..Len(videoQueue') :
                          videoQueue'[i] = videoQueue[IF i <= index THEN i ELSE i + 1]
               ELSE videoQueue' = videoQueue
\* C30: removeFromQueue(index) returns true exactly when 0 <= index < the
\* length of the persistent queue, and then the queue it leaves is the old one
\* without the entry at that index, the others in their order; for any other
\* integer index it returns false, raises nothing and leaves the queue as it
\* was.
C30_RemoveBoundsChecked == [][C30_Step]_vars
C30_Witness ==
    /\ lastCall.op = "remove" /\ lastCall.ret = "true" /\ played = <<>>
    /\ lastCall.queue = <<"B", "A">> /\ videoQueue = <<"B">>

\* ================================================================
\* SpecRestart: an engine driven by restart() alone.  Every public call is
\* a restart(), on the fresh engine or while the chain of an earlier
\* restart() plays; the placeholder exists throughout.
NextRestart ==
    \/ \E t \in Tasks : RestartCall(t)
    \/ \E t \in Tasks : StopReturn(t)
    \/ \E t \in Tasks : RestartPauseFire(t)
    \/ \E t \in Tasks, spawnOk \in BOOLEAN : StartSetup(t, spawnOk)
    \/ \E t \in Tasks, code \in ExitCodes : ExitObserved(t, code)
    \/ \E t \in Tasks : BackoffFire(t)
    \/ \E t \in Tasks, spawnOk \in BOOLEAN : PrePlayFire(t, spawnOk)
    \/ \E videoPaths \in {Playlist} : AddToQueueCall(videoPaths)

SpecRestart == Init /\ [][NextRestart]_vars

\* C27: restart() runs stop(), the pause and start() in that order: its
\* start() is entered from the pause only, when it spawns a process no
\* process spawned before is still running without having been sent the
\* termination signal, and its setup leaves the engine active.
C27_RestartOrder ==
    [][\A t \in Tasks :
          /\ (pc'[t] = "startValidate" /\ pc[t] # "startValidate") =>
                pc[t] = "restartPause"
          /\ InsideStartSetup(t) => isActive'
          /\ (InsideStartSetup(t) /\ Spawns(t)) =>
                \A u \in Tasks \ {t} : procState[u] # "running"]_vars

\* ================================================================
\* SpecTimers: one playback chain with a live queue, and timers that fire.
\* Task 1 runs start() and the chain it begins, task 2 calls stop(), the
\* playlist is queued and looping is switched at any moment.  A setTimeout
\* that is pending is eventually run by the event loop: the backoff of
\* handleStreamError, the pre-play delay of streamNext and the grace period
\* of stop() are weakly fair.  Nothing says that a process ever exits.
NextTimers ==
    \/ \E t \in {1} : StartCall(t)
    \/ \E t \in {1}, spawnOk \in BOOLEAN : StartSetup(t, spawnOk)
    \/ \E t \in {1}, code \in ExitCodes : ExitObserved(t, code)
    \/ \E t \in {1} : BackoffFire(t)
    \/ \E t \in {1}, spawnOk \in BOOLEAN : PrePlayFire(t, spawnOk)
    \/ \E t \in {2} : StopCall(t)
    \/ \E t \in {1, 2} : StopReturn(t)
    \/ AddToQueueCall(Playlist)
    \/ \E loop \in BOOLEAN : SetLoopCall(loop)

TimersFire ==
    \A t \in Tasks :
        /\ WF_vars(BackoffFire(t))
        /\ WF_vars(\E spawnOk \in BOOLEAN : PrePlayFire(t, spawnOk))
        /\ WF_vars(StopReturn(t))

SpecTimers == Init /\ [][NextTimers]_vars /\ TimersFire

\* the playback chain is alive: a task awaits the exit of a process, a
\* backoff or a pre-play delay
ChainPending == \E t \in Tasks : pc[t] \in {"awaitExit", "backoff", "prePlay"}
\* task t has observed an exit, or a spawn that threw, and goes on
Continuing(t) == pc[t] \in {"backoff", "prePlay"}
\* C25: an active engine always has a process whose exit is awaited or a
\* continuation pending; and once an exit has been observed while active,
\* either the chain spawns a next process or the engine becomes inactive.
C25_NeverDark ==
    /\ [](isActive => ChainPending)
    /\ \A t \in Tasks :
          (isActive /\ Continuing(t)) ~> (Running # {} \/ ~isActive)
C25_Witness ==
    /\ isActive /\ pc[1] = "awaitExit" /\ procState[1] = "running"
    /\ currentFile = placeholderPath /\ exitCode[1] = NoCode
    /\ videoQueue = Playlist /\ videoQueueTemp = <<>> /\ totalStreamed = 2
    /\ retryCount = 0

\* ================================================================
\* SpecFinite: SpecTimers with sources of finite length: a process that
\* plays a source exits in the end, with whatever code, and the task that
\* awaits its exit is resumed.
SourcesEnd ==
    \A t \in Tasks : WF_vars(\E code \in ExitCodes : ExitObserved(t, code))

SpecFinite == Init /\ [][NextTimers]_vars /\ TimersFire /\ SourcesEnd

\* task t takes the next source in this step: the setup of start(), or
\* streamNext after its delay
TakesNext(t) == pc[t] \in {"startValidate", "prePlay"} /\ pc'[t] # pc[t]
\* the list that step takes it from
ListSeen(t) ==
    IF pc[t] = "startValidate" THEN videoQueueTemp \o videoQueue
    ELSE IF videoQueueTemp = <<>> /\ isLoop THEN videoQueue
    ELSE videoQueueTemp
\* the step hands a source to a spawn: a process runs, or the failure of the
\* spawn is handled
Attempts(t) == Spawns(t) \/ pc'[t] \in {"backoff", "forcedStopGrace", "idle"}
\* the active list changes only by a task taking its head, which it hands
\* to a spawn (a spawn that throws at the retry ceiling with no process
\* handle left ends in a stop() that forgets the source at once)
C24_Step ==
    /\ videoQueueTemp' # videoQueueTemp => \E t \in Tasks : TakesNext(t)
    /\ \A t \in Tasks :
          (TakesNext(t) /\ ListSeen(t) # <<>>) =>
              /\ \/ currentFile' = Head(ListSeen(t))
                 \/ pc'[t] = "idle" /\ ~isActive' /\ currentFile' = NoFile
              /\ videoQueueTemp' = Tail(ListSeen(t))
              /\ Attempts(t)
Has(m, id) == \E e \in m : e[1] = id
MapSet(m, id, stream) == {e \in m : e[1] # id} \cup {<<id, stream>>}
MapDelete(m, id) == {e \in m : e[1] # id}
MapValues(m) == {e[2] : e \in m}

AddStreamOverfull(id, stream) ==
    /\ IF Has(activeStreams, id) \/ Cardinality(activeStreams) > maxStreams
       THEN /\ lastAdd' = [id |-> id, ret |-> "false"]
            /\ UNCHANGED activeStreams
       ELSE /\ activeStreams' = MapSet(activeStreams, id, stream)
            /\ lastAdd' = [id |-> id, ret |-> "true"]
    /\ UNCHANGED <<engineVars, queueVars, histVars, tubeVars, confVars, raised,
                   procConfig, lastStatus, outVars, switchVars, stopCalls,
                   serverPc>>

\* Server.addStream(id, stream)
AddStream(id, stream) ==
    /\ IF Has(activeStreams, id) \/ Cardinality(activeStreams) >= maxStreams
       THEN /\ lastAdd' = [id |-> id, ret |-> "false"]
            /\ UNCHANGED activeStreams
       ELSE /\ activeStreams' = MapSet(activeStreams, id, stream)
            /\ lastAdd' = [id |-> id, ret |-> "true"]
    /\ UNCHANGED <<engineVars, queueVars, histVars, tubeVars, confVars, raised,
                   procConfig, lastStatus, outVars, switchVars, stopCalls,
                   serverPc>>

\* Server.removeStream(id)
RemoveStream(id) ==
    /\ Has(activeStreams, id)
    /\ activeStreams' = MapDelete(activeStreams, id)
    /\ UNCHANGED <<engineVars, queueVars, histVars, tubeVars, confVars, raised,
                   procConfig, lastStatus, outVars, switchVars, stopCalls,
                   serverPc, lastAdd>>

\* Server.stop() up to its await: stop() is called on every stream of the
\* registry, all of them before the first one is awaited
ServerStopCall ==
    /\ serverPc = "idle"
    /\ stopCalls' = MapValues(activeStreams)
    /\ serverPc' = "stopping"
    /\ UNCHANGED <<engineVars, queueVars, histVars, tubeVars, confVars, raised,
                   procConfig, lastStatus, outVars, switchVars, activeStreams,
                   lastAdd>>

\* Server.stop() after Promise.all: the registry is cleared
ServerStopClear ==
    /\ serverPc = "stopping"
    /\ activeStreams' = {}
    /\ serverPc' = "idle"
    /\ UNCHANGED <<engineVars, queueVars, histVars, tubeVars, confVars, raised,
                   procConfig, lastStatus, outVars, switchVars, stopCalls,
                   lastAdd>>

NextServer ==
    \/ \E id \in StreamIds, stream \in StreamObjects : AddStream(id, stream)
    \/ \E id \in StreamIds : RemoveStream(id)
    \/ ServerStopCall
    \/ ServerStopClear

SpecServer == Init /\ [][NextServer]_vars

\* ================================================================
\* SpecDrain: the output of the processes.  streamVideo spawns a process
\* with stdout and stderr piped; handleStreamProcess starts one read loop
\* for each channel, without awaiting it, and then awaits the exit.  A
\* process writes MaxOutput chunks on each channel and then exits; a write
\* waits while the pipe of its channel is full; a killed process exits
\* whatever it has written.  A chunk is one line, and a line is the set of
\* the keywords it contains.  One start() plays the placeholder, a second
\* task calls stop().  pipe[t] and written[t] are those of the latest
\* process of task t.
PipeCap == MaxOutput - 1
Keywords == {"error", "failed", "warning", "deprecated", "frame=", "fps="}
Lines == SUBSET Keywords

\* processFFmpegOutput: the level the line is logged at
ProcessFFmpegOutput(line, streamType) ==
    IF "error" \in line \/ "failed" \in line THEN "error"
    ELSE IF "warning" \in line \/ "deprecated" \in line THEN "warn"
    ELSE IF "frame=" \in line \/ "fps=" \in line THEN "debug"
    ELSE IF streamType = "stderr" THEN "info"
    ELSE "none"

\* the process of task t writes a chunk on a channel
ProcWrite(t, streamType) ==
    /\ procState[t] = "running"
    /\ written[t][streamType] < MaxOutput
    /\ pipe[t][streamType] < PipeCap
    /\ written' = [written EXCEPT ![t][streamType] = @ + 1]
    /\ pipe' = [pipe EXCEPT ![t][streamType] = @ + 1]
    /\ UNCHANGED <<engineVars, queueVars, histVars>>
    /\ UNCHANGED <<tubeVars, confVars, raised, procConfig, lastStatus, lastLog,
                   switchVars, serverVars>>

ReadStreamOutputCountsErrors(t, streamType, line) ==
    /\ pipe[t][streamType] > 0
    /\ pipe' = [pipe EXCEPT ![t][streamType] = @ - 1]
    /\ lastLog' = ProcessFFmpegOutput(line, streamType)
    /\ retryCount' = IF lastLog' = "error" /\ retryCount < MAX_RETRY_ATTEMPTS
                     THEN retryCount + 1 ELSE retryCount
    /\ UNCHANGED <<currentStreamProcess, isActive, currentFile, placeholderExists,
                   pc, procState, exitCode, backoffs>>
    /\ UNCHANGED <<queueVars, histVars>>
    /\ UNCHANGED <<tubeVars, confVars, raised, procConfig, lastStatus, written,
                   switchVars, serverVars>>

ReadStreamOutputAfterExit(t, streamType, line) ==
    /\ pipe[t][streamType] > 0
    /\ procState[t] = "exited"
    /\ pipe' = [pipe EXCEPT ![t][streamType] = @ - 1]
    /\ lastLog' = ProcessFFmpegOutput(line, streamType)
    /\ UNCHANGED <<engineVars, queueVars, histVars>>
    /\ UNCHANGED <<tubeVars, confVars, raised, procConfig, lastStatus, written,
                   switchVars, serverVars>>

\* readStreamOutput: one turn of the read loop of a channel, which takes a
\* chunk from the pipe and classifies its line
ReadStreamOutput(t, streamType, line) ==
    /\ pipe[t][streamType] > 0
    /\ pipe' = [pipe EXCEPT ![t][streamType] = @ - 1]
    /\ lastLog' = ProcessFFmpegOutput(line, streamType)
    /\ UNCHANGED <<engineVars, queueVars, histVars>>
    /\ UNCHANGED <<tubeVars, confVars, raised, procConfig, lastStatus, written,
                   switchVars, serverVars>>

\* the process of task t has nothing left to write, or has been killed
Finished(t) ==
    \/ procState[t] = "killed"
    \/ \A streamType \in Channels : written[t][streamType] = MaxOutput

\* the process of task t exits and the task that awaits its exit is resumed
ProcExit(t, code) == Finished(t) /\ ExitObserved(t, code)

NextDrain ==
    \/ \E t \in {1} : StartCall(t)
    \/ \E t \in {1}, spawnOk \in BOOLEAN : StartSetup(t, spawnOk)
    \/ \E t \in {1}, streamType \in Channels : ProcWrite(t, streamType)
    \/ \E t \in {1}, streamType \in Channels, line \in Lines :
          ReadStreamOutput(t, streamType, line)
    \/ \E t \in {1}, code \in ExitCodes : ProcExit(t, code)
    \/ \E t \in {1} : BackoffFire(t)
    \/ \E t \in {1}, spawnOk \in BOOLEAN : PrePlayFire(t, spawnOk)
    \/ \E t \in {2} : StopCall(t)
    \/ \E t \in {1, 2} : StopReturn(t)

\* a process that can write does, a read loop whose pipe holds a chunk is
\* resumed, and a process that has nothing left to write exits
DrainFair ==
    \A t \in Tasks :
        /\ \A streamType \in Channels :
              /\ WF_vars(ProcWrite(t, streamType))
              /\ WF_vars(\E line \in Lines : ReadStreamOutput(t, streamType, line))
        /\ WF_vars(\E code \in ExitCodes : ProcExit(t, code))

SpecDrain == Init /\ [][NextDrain]_vars /\ DrainFair

\* ==================================================== claims C31 - C39
\* a playback chain run by task t is pending: the task awaits the exit of a
\* process, a backoff or a pre-play delay
ChainOf(t) == pc[t] \in {"awaitExit", "backoff", "prePlay"}
\* C33: while the engine is active at most one playback chain is pending:
\* no second chain waits to resume playing beside the first.
C33_OneChain == isActive => Cardinality({t \in Tasks : ChainOf(t)}) <= 1

\* C34: every process that is running is the one the handle of the engine
\* refers to.
C34_HandleOnRunning ==
    \A t \in Tasks : procState[t] = "running" => currentStreamProcess = t

\* a backoff delay or a process is in progress
InProgress == \E t \in Tasks : pc[t] = "backoff" \/ procState[t] = "running"
\* C36: retryCount is within 0..MAX_RETRY_ATTEMPTS + 1; it is at most
\* MAX_RETRY_ATTEMPTS while the engine is active with a backoff or a process
\* in progress; it is 0 when a stop() returns and when the setup of start()
\* has run.
C36_RetryCountRange ==
    /\ [](retryCount \in 0..(MAX_RETRY_ATTEMPTS + 1))
    /\ []((isActive /\ InProgress) => retryCount <= MAX_RETRY_ATTEMPTS)
    /\ [][\A t \in Tasks :
             /\ StopCompletes(t) => retryCount' = 0
             /\ (InsideStartSetup(t) /\ Spawns(t)) => retryCount' = 0]_vars

\* with looping off: what a streamNext takes after its delay, what a change
\* of the persistent queue does, and where the active list can grow
C37_Step ==
    ~isLoop =>
        /\ \A t \in Tasks :
              (pc[t] = "prePlay" /\ pc'[t] # pc[t]) =>
                  IF videoQueueTemp = <<>>
                  THEN /\ currentFile' \in {placeholderPath, NoFile}
                       /\ videoQueueTemp' = <<>>
                  ELSE videoQueueTemp' = Tail(videoQueueTemp)
        /\ videoQueue' # videoQueue =>
              (videoQueueTemp' = videoQueueTemp /\ currentFile' = currentFile)
        /\ Len(videoQueueTemp') > Len(videoQueueTemp) =>
              \E t \in Tasks : InsideStartSetup(t)
\* C37: with looping off, the active list gets sources only in the setup of
\* start(); a source added to the persistent queue afterwards does not enter
\* it, and once it is empty every streamNext plays the placeholder, whatever
\* the persistent queue holds.
C37_LateSourcesNotPlayed == [][C37_Step]_vars
C37_Witness ==
    /\ isActive /\ pc[1] = "awaitExit" /\ procState[1] = "running"
    /\ videoQueue = Playlist /\ videoQueueTemp = <<>> /\ totalStreamed = 0
    /\ currentFile = placeholderPath /\ retryCount = 2

\* the start() that task t runs returns or raises in this step: the task
\* was past the isActive test of start(), or in the chain that start()
\* awaits, and is free again
StartReturns(t) ==
    /\ pc[t] \in {"startValidate", "awaitExit", "backoff", "prePlay"}
    /\ pc'[t] = "idle"
\* C35: the start() that began a playback chain returns only in a step in
\* which that chain ends: one that finds or leaves the engine inactive
\* (after a stop(), at the retry ceiling, or with the placeholder missing).
\* While the chain is pending on an active engine the caller stays suspended.
C35_StartAwaitsChain ==
    [][\A t \in Tasks : StartReturns(t) => ~isActive']_vars
C35_Witness ==
    /\ pc = [t \in Tasks |-> "idle"] /\ ~isActive /\ ~raised
    /\ procState[1] = "exited" /\ exitCode[1] = NoCode
    /\ totalStreamed = 2 /\ currentFile = NoFile

C39_Step ==
    /\ \A id \in StreamIds, stream \in StreamObjects :
          AddStream(id, stream) =>
            /\ lastAdd'.ret = "false"
                 <=> (Has(activeStreams, id)
                      \/ Cardinality(activeStreams) >= maxStreams)
            /\ lastAdd'.ret = "false" => activeStreams' = activeStreams
            /\ lastAdd'.ret = "true" => <<id, stream>> \in activeStreams'
    /\ ServerStopCall => stopCalls' = {e[2] : e \in activeStreams}
    /\ ServerStopClear => activeStreams' = {}
\* C39: the registry never holds more than maxStreams streams and never two
\* streams under one id; addStream returns false and leaves the registry
\* unchanged exactly when the id exists or the registry is full; Server.stop()
\* calls stop() on every stream registered when it is called and leaves the
\* registry empty when it completes.
C39_RegistryBounded ==
    /\ [](/\ Cardinality(activeStreams) <= maxStreams
          /\ \A e1, e2 \in activeStreams : e1[1] = e2[1] => e1 = e2)
    /\ [][C39_Step]_vars
C39_Witness ==
    /\ Cardinality(activeStreams) = maxStreams
    /\ lastAdd.ret = "false"
    /\ ~Has(activeStreams, lastAdd.id)
    /\ stopCalls = StreamObjects
    /\ serverPc = "idle"

C38_Step ==
    \A t \in Tasks :
        /\ SwitchReturn(t) => SinkServer(isUsingBackup') = switching[t]
        /\ \A target \in {"primary", "backup"} :
              SwitchCall(t, target) =>
                IF SwitchRefused(target)
                THEN UNCHANGED <<isUsingBackup, isActive, currentStreamProcess,
                                 currentFile, retryCount, procState, pc>>
                ELSE ~isActive => SinkServer(isUsingBackup') = target
\* C38: whenever switchToPrimaryServer() returns true the next spawns send to
\* the primary server, and whenever switchToBackupServer() returns true they
\* send to the backup server; a call that returns false leaves the selection
\* and the run state as they were.
C38_SwitchSelects == [][C38_Step]_vars

\* a step in which a process exits with a failure code, or a spawn throws
FailureStep ==
    \E t \in Tasks :
        \/ \E code \in ExitCodes : ~IsSuccess(code) /\ ProcExit(t, code)
        \/ StartSetup(t, FALSE)
        \/ PrePlayFire(t, FALSE)
C31_Step ==
    /\ \A t \in Tasks, streamType \in Channels :
          /\ (\E line \in Lines : ReadStreamOutput(t, streamType, line))
                => UNCHANGED <<engineVars, queueVars>>
          /\ ProcWrite(t, streamType) => UNCHANGED <<engineVars, queueVars>>
    /\ retryCount' > retryCount => FailureStep
\* C31: whatever lines a process writes on stdout or stderr, writing and
\* classifying them leaves the run state, retryCount, the queues and the
\* pending continuation as they were; retryCount grows only in a step in
\* which a process exits with a failure code or a spawn throws.
C31_OutputObservedOnly == [][C31_Step]_vars
C31_Witness ==
    /\ lastLog = "error" /\ retryCount = 0 /\ backoffs = <<>>
    /\ isActive /\ pc[1] = "awaitExit" /\ procState[1] = "running"
    /\ written[1] = [streamType \in Channels |-> MaxOutput]
    /\ pipe[1] = NoOutput

\* C32: the read loops of stdout and stderr run while the exit is awaited
\* and each on its own: a process that writes more than a pipe holds, on
\* either channel, has every chunk taken from its pipes, and its exit is
\* observed in the end.
C32_DrainedWhileAwaited ==
    \A t \in Tasks :
        /\ procState[t] = "running" ~> procState[t] = "exited"
        /\ \A streamType \in Channels :
              pipe[t][streamType] > 0 ~> pipe[t][streamType] = 0
C32_Witness ==
    /\ procState[1] = "exited" /\ exitCode[1] = 0 /\ isActive
    /\ written[1] = [streamType \in Channels |-> MaxOutput]
    /\ pipe[1] = NoOutput
    /\ lastLog = "debug"

====
